---- MODULE Spec2Model ----
(***************************************************************************)
(* Voicebill (src/app8.py): a background speech listener feeding a text    *)
(* queue, a polling consumer that parses utterances into priced line       *)
(* items, a bounded log, a start/stop controller and a bill export.        *)
(*                                                                         *)
(* Text is a sequence of one-character strings, so that lower(), strip(),  *)
(* startswith(), replace() and the regular expressions of                  *)
(* parse_quantity_and_item are computed character by character.            *)
(*                                                                         *)
(* The Dash server runs with threaded=True (app8.py:353): every callback   *)
(* runs in its own request thread, next to the listener threads.  Each     *)
(* action below is one shared-memory access of one thread together with    *)
(* the thread-local computation around it.                                 *)
(***************************************************************************)
EXTENDS Integers, Sequences, FiniteSets

(***************************************************************************)
(* Bounds of the model.                                                    *)
(***************************************************************************)
\* listener threads that can be spawned in one behaviour
MaxThreads == 3
\* capture cycles that end in a recognised text or in a service error
MaxHeard == 2
\* clicks on "Print Bill"
MaxPrint == 2
\* catalog uploads
MaxLoad == 1

(***************************************************************************)
(* Program constants.                                                      *)
(***************************************************************************)
\* add_log keeps the log at this many entries (app8.py:38)
LogCap == 20

(***************************************************************************)
(* Strings.                                                                *)
(***************************************************************************)
Upper == <<"A","B","C","D","E","F","G","H","I","J","K","L","M",
           "N","O","P","Q","R","S","T","U","V","W","X","Y","Z">>
Letters == <<"a","b","c","d","e","f","g","h","i","j","k","l","m",
             "n","o","p","q","r","s","t","u","v","w","x","y","z">>
Digits == <<"0","1","2","3","4","5","6","7","8","9">>

IndexOf(c, seq) ==
    IF \E i \in 1..Len(seq) : seq[i] = c
    THEN CHOOSE i \in 1..Len(seq) : seq[i] = c
    ELSE 0

\* the character classes \s, \d and [a-z] are Spaces, Digits and Letters
Spaces == <<" ">>
IsSpace(c) == IndexOf(c, Spaces) > 0

\* str.lower()
Lower(s) ==
    [i \in 1..Len(s) |->
        IF IndexOf(s[i], Upper) > 0 THEN Letters[IndexOf(s[i], Upper)] ELSE s[i]]

\* number of characters of s, from position i on, that are in the class cls
RECURSIVE SpanLen(_, _, _)
SpanLen(s, cls, i) ==
    IF i <= Len(s) /\ IndexOf(s[i], cls) > 0 THEN SpanLen(s, cls, i + 1) ELSE i - 1

\* s without its first n characters
Drop(s, n) == SubSeq(s, n + 1, Len(s))

LStrip(s) == Drop(s, SpanLen(s, Spaces, 1))

RECURSIVE RStrip(_)
RStrip(s) ==
    IF s # <<>> /\ IsSpace(s[Len(s)]) THEN RStrip(SubSeq(s, 1, Len(s) - 1)) ELSE s

\* str.strip()
Strip(s) == RStrip(LStrip(s))

\* str.startswith(p)
StartsWith(s, p) == Len(s) >= Len(p) /\ SubSeq(s, 1, Len(p)) = p

\* str.replace(old, ""): every non-overlapping occurrence, left to right
RECURSIVE RemoveAll(_, _)
RemoveAll(s, old) ==
    IF s = <<>> THEN <<>>
    ELSE IF StartsWith(s, old) THEN RemoveAll(Drop(s, Len(old)), old)
    ELSE <<Head(s)>> \o RemoveAll(Tail(s), old)

\* int() of a run of decimal digits
RECURSIVE ToInt(_)
ToInt(d) ==
    IF d = <<>> THEN 0
    ELSE 10 * ToInt(SubSeq(d, 1, Len(d) - 1)) + (IndexOf(d[Len(d)], Digits) - 1)

\* code point order of the characters used
Ascii == <<" ", "-">> \o Digits \o Upper \o Letters

\* lexicographic order of str: s < t
RECURSIVE StrLess(_, _)
StrLess(s, t) ==
    IF t = <<>> THEN FALSE
    ELSE IF s = <<>> THEN TRUE
    ELSE IF Head(s) = Head(t) THEN StrLess(Tail(s), Tail(t))
    ELSE IndexOf(Head(s), Ascii) < IndexOf(Head(t), Ascii)

NAME_PREFIX == <<"n","a","m","e"," ">>

(***************************************************************************)
(* parse_quantity_and_item (app8.py:59-67).                                *)
(***************************************************************************)
words_to_num ==
    [w \in { <<"o","n","e">>, <<"t","w","o">>, <<"t","h","r","e","e">>,
             <<"f","o","u","r">>, <<"f","i","v","e">>, <<"s","i","x">>,
             <<"s","e","v","e","n">>, <<"e","i","g","h","t">>,
             <<"n","i","n","e">>, <<"t","e","n">> } |->
        CASE w = <<"o","n","e">> -> 1
          [] w = <<"t","w","o">> -> 2
          [] w = <<"t","h","r","e","e">> -> 3
          [] w = <<"f","o","u","r">> -> 4
          [] w = <<"f","i","v","e">> -> 5
          [] w = <<"s","i","x">> -> 6
          [] w = <<"s","e","v","e","n">> -> 7
          [] w = <<"e","i","g","h","t">> -> 8
          [] w = <<"n","i","n","e">> -> 9
          [] w = <<"t","e","n">> -> 10]

\* the regular expression  ^\s*(CLASS+)\s+(.+)$  applied to s: the leading
\* run of CLASS characters is followed by white space and then by at least
\* one more character.  The result is <<matched, group 1, group 2>>.
\* t starts with n CLASS characters followed by k characters of white space
ReGroups(t, n, k) ==
    IF n > 0 /\ k > 0 /\ Len(t) > n + k
    THEN <<TRUE, SubSeq(t, 1, n), Drop(t, n + k)>>
    ELSE IF n > 0 /\ k > 1
    THEN <<TRUE, SubSeq(t, 1, n), Drop(t, n + k - 1)>>  \* \s+ gives one space back to .+
    ELSE <<FALSE, <<>>, <<>>>>

ReGroup1(t, n) == ReGroups(t, n, SpanLen(t, Spaces, n + 1) - n)

ReMatchAt(t, cls) == ReGroup1(t, SpanLen(t, cls, 1))

ReMatch(s, cls) == ReMatchAt(LStrip(s), cls)

\* lines 63-67, given the text of line 60 and the matches m and m2
ParseMatches(text, m, m2) ==
    IF m[1] THEN <<ToInt(m[2]), Strip(m[3])>>
    ELSE IF m2[1] /\ m2[2] \in DOMAIN words_to_num
    THEN <<words_to_num[m2[2]], Strip(m2[3])>>
    ELSE <<1, text>>

\* lines 62-67, given the text of line 60
ParseText(text) == ParseMatches(text, ReMatch(text, Digits), ReMatch(text, Letters))

\* the result is <<quantity, item>>
parse_quantity_and_item(raw) == ParseText(Strip(Lower(raw)))

(***************************************************************************)
(* fuzzy_lookup (app8.py:69-77) and difflib.get_close_matches.             *)
(* A catalog (state.price_df) is [loaded, rows]: rows is the set of        *)
(* <<item, price>> rows of the indexed table; None is not loaded.          *)
(***************************************************************************)
NoCatalog == [loaded |-> FALSE, rows |-> {}]

Keys(df) == {r[1] : r \in df.rows}
PriceOf(df, k) == (CHOOSE r \in df.rows : r[1] = k)[2]

\* length of the common run of a from i and b from j
RECURSIVE CommonLen(_, _, _, _)
CommonLen(a, b, i, j) ==
    IF i <= Len(a) /\ j <= Len(b) /\ a[i] = b[j]
    THEN 1 + CommonLen(a, b, i + 1, j + 1)
    ELSE 0

\* SequenceMatcher.find_longest_match: the longest common block, the one
\* starting earliest in a, and of those the one starting earliest in b
\* the block at p of length kp is preferred to the block at q of length kq
Better(p, kp, q, kq) ==
    \/ kp > kq
    \/ kp = kq /\ p[1] < q[1]
    \/ kp = kq /\ p[1] = q[1] /\ p[2] <= q[2]

Blocks(a, b) == {<<i, j, CommonLen(a, b, i, j)>> : i \in 1..Len(a), j \in 1..Len(b)}

BestBlock(blocks) ==
    CHOOSE p \in blocks : \A q \in blocks : Better(p, p[3], q, q[3])

BlockOf(best) == [i |-> best[1], j |-> best[2], k |-> best[3]]

LongestMatch(a, b) == BlockOf(BestBlock(Blocks(a, b)))

\* SequenceMatcher.get_matching_blocks: total size of the matching blocks
RECURSIVE MatchCount(_, _)
\* the longest block m, and the matching blocks to its left and to its right
MatchAround(a, b, m) ==
    IF m.k = 0 THEN 0
    ELSE m.k + MatchCount(SubSeq(a, 1, m.i - 1), SubSeq(b, 1, m.j - 1))
             + MatchCount(Drop(a, m.i + m.k - 1), Drop(b, m.j + m.k - 1))

MatchCount(a, b) ==
    IF a = <<>> \/ b = <<>> THEN 0 ELSE MatchAround(a, b, LongestMatch(a, b))

\* SequenceMatcher.ratio() = 2*M/T as the fraction <<2*M, T>>
Ratio(a, b) == <<2 * MatchCount(a, b), Len(a) + Len(b)>>

\* ratio >= cutoff, the cutoff given in tenths
MeetsCutoff(r, tenths) == IF r[2] = 0 THEN TRUE ELSE 10 * r[1] >= tenths * r[2]

\* get_close_matches(word, possibilities, n=1, cutoff): the candidates at or
\* above the cutoff, the largest (score, candidate) first
\* the candidates with their scores, <<candidate, ratio>>
Scored(word, possibilities) == {<<x, Ratio(x, word)>> : x \in possibilities}

\* (score, candidate) of p is at least that of q
Above(p, q) ==
    \/ p[2][1] * q[2][2] > q[2][1] * p[2][2]
    \/ p[2][1] * q[2][2] = q[2][1] * p[2][2] /\ ~StrLess(p[1], q[1])

Largest(ok) == IF ok = {} THEN <<>> ELSE <<(CHOOSE p \in ok : \A q \in ok : Above(p, q))[1]>>

get_close_matches(word, possibilities, tenths) ==
    Largest({p \in Scored(word, possibilities) : MeetsCutoff(p[2], tenths)})

\* default cutoff=0.6, in tenths (app8.py:69)
CUTOFF == 6

\* the result is <<found, match, price>>; (None, None) is <<FALSE, <<>>, 0>>
\* lines 75-77, given the matches of line 74
LookupMatches(matches, price_df) ==
    IF matches # <<>>
    THEN <<TRUE, matches[1], PriceOf(price_df, matches[1])>>
    ELSE <<FALSE, <<>>, 0>>

\* LookupText without the test of line 72, the closest other key taken
LookupText_Closest(item_text, price_df) ==
    LookupMatches(get_close_matches(item_text, Keys(price_df) \ {item_text}, CUTOFF), price_df)

\* lines 72-77, given the item_text of line 71
LookupText(item_text, price_df) ==
    IF item_text \in Keys(price_df)
    THEN <<TRUE, item_text, PriceOf(price_df, item_text)>>
    ELSE LookupMatches(get_close_matches(item_text, Keys(price_df), CUTOFF), price_df)

fuzzy_lookup(raw, price_df) ==
    IF ~price_df.loaded THEN <<FALSE, <<>>, 0>>
    ELSE LookupText(Lower(Strip(raw)), price_df)

(***************************************************************************)
(* Inputs.                                                                 *)
(***************************************************************************)
SENTINEL == <<"-">>
NO_CATALOG_MSG == "Error: Price list not loaded!"

\* what the recogniser returns, before .lower().strip() (app8.py:145)
U_NAME == <<"N","a","m","e"," ","A","l"," ">>
U_TWO_TEA == <<"2"," ","t","e","a">>
U_XYZ == <<"x","y","z">>
U_NAME_AGAIN == <<"n","a","m","e"," ","2"," ","n","a","m","e"," ","a","l">>
U_ZERO_TEA == <<"0"," ","t","e","a">>
U_WORD_TEE == <<"T","w","o"," "," ","t","e","e">>
U_TEA == <<"t","e","a">>

Utterances == {U_NAME, U_TWO_TEA, U_XYZ}

\* an uploaded table: its column names and its rows <<item, price>>;
\* readable is FALSE when pd.read_excel raises
T_GOOD == [readable |-> TRUE,
           columns |-> {<<"I","t","e","m"," ">>, <<"p","r","i","c","e">>},
           rows |-> {<<<<" ","T","e","a">>, 30>>}]
T_NOPRICE == [readable |-> TRUE,
              columns |-> {<<"i","t","e","m">>, <<"c","o","s","t">>},
              rows |-> {<<<<"t","e","a">>, 30>>}]
T_UNREADABLE == [readable |-> FALSE, columns |-> {}, rows |-> {}]

Tables == {T_GOOD, T_NOPRICE, T_UNREADABLE}

\* a second price list, with two keys that are close to each other
T_TWO == [readable |-> TRUE,
          columns |-> {<<"i","t","e","m">>, <<"P","r","i","c","e">>},
          rows |-> {<<<<"t","e","a">>, 25>>, <<<<"T","e","e"," ">>, 20>>}]

(***************************************************************************)
(* State.                                                                  *)
(***************************************************************************)
VARIABLES
    price_df,       \* AppState.price_df
    items,          \* AppState.items: sequence of <<item, qty, rate, total>>
    logs,           \* AppState.logs
    is_listening,   \* AppState.is_listening
    stop_event,     \* AppState.stop_event is set
    speech_queue,   \* AppState.speech_queue
    customer_name,  \* AppState.customer_name
    pc,             \* where each thread is: the source line it executes next
    alog,           \* where each thread is inside add_log
    text,           \* poll_updates: the utterance being processed
    pend,           \* poll_updates: the line item about to be appended
    bill_data,      \* print_bill: customer_name and the items rendered
    toggle_ret,     \* toggle_listening: the button of the last call and its result
    clock,          \* datetime.now(), one tick per add_log call
    heard,          \* history: every text put on speech_queue, in order
    taken,          \* history: how many texts poll_updates has taken
    effects,        \* history: the ledger appends and log entries of poll_updates,
                    \*          and the clears of print_bill
    appended,       \* history: the entries add_log appended since logs was last emptied
    heard_at_stop,  \* history: how many texts had been put when stop_event was last set
    nHeard,         \* capture cycles that ended in a text or an error
    nPrint,         \* print_bill calls
    nLoad           \* load_excel calls

app == <<price_df, items, logs, is_listening, stop_event, speech_queue, customer_name>>
locals == <<text, pend, bill_data, toggle_ret>>
counters == <<nHeard, nPrint, nLoad>>
history == <<heard, taken, effects, heard_at_stop>>
vars == <<app, pc, alog, locals, clock, appended, history, counters>>

\* threads: the listener threads 1..MaxThreads and one request thread for
\* each of the callbacks poll_updates, print_bill and load_excel
Listeners == 1..MaxThreads
POLL == 0
PRINT == -1
LOAD == -2
Threads == Listeners \cup {POLL, PRINT, LOAD}

Live(t) == pc[t] \notin {"unborn", "done"}
LiveListeners == {t \in Listeners : Live(t)}
Born == {t \in Listeners : pc[t] # "unborn"}

NO_UPDATE == <<"no_update", "no_update">>

Init ==
    /\ price_df = NoCatalog
    /\ items = <<>>
    /\ logs = <<>>
    /\ is_listening = FALSE
    /\ stop_event = FALSE
    /\ speech_queue = <<>>
    /\ customer_name = SENTINEL
    /\ pc = [t \in Threads |-> IF t \in Listeners THEN "unborn" ELSE "idle"]
    /\ alog = [t \in Threads |-> "idle"]
    /\ text = <<>>
    /\ pend = <<>>
    /\ bill_data = [customer_name |-> SENTINEL, rendered |-> <<>>]
    /\ toggle_ret = [button |-> "none", out |-> NO_UPDATE]
    /\ clock = 0
    /\ appended = <<>>
    /\ heard = <<>>
    /\ taken = 0
    /\ effects = <<>>
    /\ heard_at_stop = 0
    /\ nHeard = 0
    /\ nPrint = 0
    /\ nLoad = 0

(***************************************************************************)
(* AppState.add_log (app8.py:35-39), in three steps: the append, the test  *)
(* of the length and the pop.  While a thread is inside add_log its pc     *)
(* stays at the line of the call.                                          *)
(***************************************************************************)
LogEntry(kind, qty, arg) == [ts |-> clock + 1, kind |-> kind, qty |-> qty, arg |-> arg]

\* lines 36-37: timestamp and append
AddLogAppend(t, kind, qty, arg) ==
    /\ alog[t] = "idle"
    /\ logs' = Append(logs, LogEntry(kind, qty, arg))
    /\ appended' = Append(appended, LogEntry(kind, qty, arg))
    /\ clock' = clock + 1
    /\ alog' = [alog EXCEPT ![t] = "check"]

\* AfterLog with poll_updates leaving its loop after an item was added
AfterLog_Break(at) ==
    CASE at = "L140" -> "L141"
      [] at = "L150" -> "L141"
      [] at = "L218" -> "idle"
      [] at = "L267" -> "L260"
      [] at = "L274" -> "L260"
      [] at = "L281" -> "L288"
      [] at = "L284" -> "L260"
      [] at = "L314" -> "L315"
      [] at = "L330" -> "L334"
      [] at = "L347" -> "L349err"

\* where a thread continues when add_log returns
AfterLog(at) ==
    CASE at = "L140" -> "L141"
      [] at = "L150" -> "L141"
      [] at = "L218" -> "idle"
      [] at = "L267" -> "L260"
      [] at = "L274" -> "L260"
      [] at = "L281" -> "L260"
      [] at = "L284" -> "L260"
      [] at = "L314" -> "L315"
      [] at = "L330" -> "L334"
      [] at = "L347" -> "L349err"

\* where a thread continues when add_log raises: an exception outside a try
\* block ends the listener thread or the callback; line 330 is inside the
\* try block of print_bill and line 218 inside that of load_excel
AfterRaise(at) ==
    CASE at \in {"L140", "L150"} -> "done"
      [] at = "L330" -> "L347"
      [] OTHER -> "idle"

\* AddLogCheck with the test len(self.logs) > 21
AddLogCheck_OffByOne(t) ==
    /\ alog[t] = "check"
    /\ IF Len(logs) > LogCap + 1
       THEN /\ alog' = [alog EXCEPT ![t] = "pop"]
            /\ pc' = pc
       ELSE /\ alog' = [alog EXCEPT ![t] = "idle"]
            /\ pc' = [pc EXCEPT ![t] = AfterLog(pc[t])]
    /\ UNCHANGED <<app, locals, clock, appended, history, counters>>

\* line 38: if len(self.logs) > 20
AddLogCheck(t) ==
    /\ alog[t] = "check"
    /\ IF Len(logs) > LogCap
       THEN /\ alog' = [alog EXCEPT ![t] = "pop"]
            /\ pc' = pc
       ELSE /\ alog' = [alog EXCEPT ![t] = "idle"]
            /\ pc' = [pc EXCEPT ![t] = AfterLog(pc[t])]
    /\ UNCHANGED <<app, locals, clock, appended, history, counters>>

\* line 39: self.logs.pop(0); IndexError when the list is empty
AddLogPop(t) ==
    /\ alog[t] = "pop"
    /\ alog' = [alog EXCEPT ![t] = "idle"]
    /\ IF logs # <<>>
       THEN /\ logs' = Tail(logs)
            /\ pc' = [pc EXCEPT ![t] = AfterLog(pc[t])]
       ELSE /\ logs' = logs
            /\ pc' = [pc EXCEPT ![t] = AfterRaise(pc[t])]
    /\ UNCHANGED <<price_df, items, is_listening, stop_event, speech_queue,
                   customer_name, locals, clock, appended, history, counters>>

\* a thread at line `at` calls add_log
CallLog(t, at, kind, qty, arg) ==
    /\ pc[t] = at
    /\ AddLogAppend(t, kind, qty, arg)
    /\ pc' = pc

(***************************************************************************)
(* background_listener (app8.py:135-151).  Lines 136-139 (recogniser,      *)
(* microphone, calibration) touch no shared state: a new thread stands at  *)
(* line 140.                                                               *)
(***************************************************************************)
\* line 140: state.add_log("Listener thread started. ...")
ListenerStarted(t) ==
    /\ CallLog(t, "L140", "Listener thread started", 0, <<>>)
    /\ UNCHANGED <<price_df, items, is_listening, stop_event, speech_queue,
                   customer_name, locals, history, counters>>

\* line 141: while not state.stop_event.is_set()
ListenerLoop(t) ==
    /\ pc[t] = "L141"
    /\ pc' = [pc EXCEPT ![t] = IF stop_event THEN "done" ELSE "L144"]
    /\ UNCHANGED <<app, alog, locals, clock, appended, history, counters>>

\* lines 144-146: an utterance is heard and recognised as raw
ListenerHeard(t, raw) ==
    /\ pc[t] = "L144"
    /\ speech_queue' = Append(speech_queue, Strip(Lower(raw)))
    /\ heard' = Append(heard, Strip(Lower(raw)))
    /\ nHeard' = nHeard + 1
    /\ pc' = [pc EXCEPT ![t] = "L141"]
    /\ UNCHANGED <<price_df, items, logs, is_listening, stop_event, customer_name,
                   alog, locals, clock, appended, taken, effects, heard_at_stop,
                   nPrint, nLoad>>

\* lines 147-148: sr.UnknownValueError
ListenerNotUnderstood(t) ==
    /\ pc[t] = "L144"
    /\ pc' = [pc EXCEPT ![t] = "L141"]
    /\ UNCHANGED <<app, alog, locals, clock, appended, history, counters>>

\* lines 149-151: any other exception is logged, then the thread sleeps
ListenerError(t) ==
    /\ pc[t] = "L144"
    /\ nHeard' = nHeard + 1
    /\ pc' = [pc EXCEPT ![t] = "L150"]
    /\ UNCHANGED <<app, alog, locals, clock, appended, history, nPrint, nLoad>>

ListenerLogError(t) ==
    /\ CallLog(t, "L150", "Error", 0, <<>>)
    /\ UNCHANGED <<price_df, items, is_listening, stop_event, speech_queue,
                   customer_name, locals, history, counters>>

(***************************************************************************)
(* toggle_listening (app8.py:233-251).  Only this callback reads or writes *)
(* is_listening, and the listener threads only read stop_event, so one     *)
(* call is one step.                                                       *)
(***************************************************************************)
\* the thread that threading.Thread(...).start() creates
NewThread == CHOOSE t \in Listeners : pc[t] = "unborn" /\ \A u \in Listeners : u < t => pc[u] # "unborn"

\* ToggleStart without the test of line 239
ToggleStart_NoTest ==
    /\ \E t \in Listeners : pc[t] = "unborn"
    /\ stop_event' = FALSE
    /\ pc' = [pc EXCEPT ![NewThread] = "L140"]
    /\ is_listening' = TRUE
    /\ toggle_ret' = [button |-> "btn-start", out |-> <<"True", "False">>]
    /\ UNCHANGED <<price_df, items, logs, speech_queue, customer_name, alog,
                   text, pend, bill_data, clock, appended, history, counters>>

\* lines 238-244
ToggleStart ==
    /\ is_listening \/ \E t \in Listeners : pc[t] = "unborn"
    /\ IF ~is_listening
       THEN /\ stop_event' = FALSE
            /\ pc' = [pc EXCEPT ![NewThread] = "L140"]
            /\ is_listening' = TRUE
            /\ toggle_ret' = [button |-> "btn-start", out |-> <<"True", "False">>]
       ELSE /\ toggle_ret' = [button |-> "btn-start", out |-> NO_UPDATE]
            /\ UNCHANGED <<stop_event, pc, is_listening>>
    /\ UNCHANGED <<price_df, items, logs, speech_queue, customer_name, alog,
                   text, pend, bill_data, clock, appended, history, counters>>

\* ToggleStop without the test of line 246
ToggleStop_NoTest ==
    /\ stop_event' = TRUE
    /\ is_listening' = FALSE
    /\ toggle_ret' = [button |-> "btn-stop", out |-> <<"False", "True">>]
    /\ heard_at_stop' = Len(heard)
    /\ UNCHANGED <<price_df, items, logs, speech_queue, customer_name, pc, alog,
                   text, pend, bill_data, clock, appended, heard, taken, effects,
                   counters>>

\* lines 245-251
ToggleStop ==
    /\ IF is_listening
       THEN /\ stop_event' = TRUE
            /\ is_listening' = FALSE
            /\ toggle_ret' = [button |-> "btn-stop", out |-> <<"False", "True">>]
            /\ heard_at_stop' = Len(heard)
       ELSE /\ toggle_ret' = [button |-> "btn-stop", out |-> NO_UPDATE]
            /\ UNCHANGED <<stop_event, is_listening, heard_at_stop>>
    /\ UNCHANGED <<price_df, items, logs, speech_queue, customer_name, pc, alog,
                   text, pend, bill_data, clock, appended, heard, taken, effects,
                   counters>>

(***************************************************************************)
(* poll_updates (app8.py:259-305).                                         *)
(***************************************************************************)
\* the interval fires
PollTick ==
    /\ pc[POLL] = "idle"
    /\ pc' = [pc EXCEPT ![POLL] = "L260"]
    /\ UNCHANGED <<app, alog, locals, clock, appended, history, counters>>

\* PollGet taking the newest text of the queue instead of the oldest
PollGet_Newest ==
    /\ pc[POLL] = "L260"
    /\ IF speech_queue = <<>>
       THEN /\ pc' = [pc EXCEPT ![POLL] = "L288"]
            /\ UNCHANGED <<speech_queue, text, taken>>
       ELSE /\ speech_queue' = SubSeq(speech_queue, 1, Len(speech_queue) - 1)
            /\ taken' = taken + 1
            /\ text' = Strip(Lower(speech_queue[Len(speech_queue)]))
            /\ pc' = [pc EXCEPT ![POLL] =
                        IF StartsWith(text', NAME_PREFIX) THEN "L266" ELSE "L273"]
    /\ UNCHANGED <<price_df, items, logs, is_listening, stop_event, customer_name,
                   alog, pend, bill_data, toggle_ret, clock, appended, heard, heard_at_stop, effects, counters>>

\* lines 260-264, 272: the loop test, get() and the parse of the text
PollGet ==
    /\ pc[POLL] = "L260"
    /\ IF speech_queue = <<>>
       THEN /\ pc' = [pc EXCEPT ![POLL] = "L288"]
            /\ UNCHANGED <<speech_queue, text, taken>>
       ELSE /\ speech_queue' = Tail(speech_queue)
            /\ taken' = taken + 1
            /\ text' = Strip(Lower(Head(speech_queue)))
            /\ pc' = [pc EXCEPT ![POLL] =
                        IF StartsWith(text', NAME_PREFIX) THEN "L266" ELSE "L273"]
    /\ UNCHANGED <<price_df, items, logs, is_listening, stop_event, customer_name,
                   alog, pend, bill_data, toggle_ret, clock, appended, heard, heard_at_stop, effects, counters>>

\* line 265
NameOf(txt) == Strip(RemoveAll(txt, NAME_PREFIX))

\* line 266: state.customer_name = name
PollSetName ==
    /\ pc[POLL] = "L266"
    /\ customer_name' = NameOf(text)
    /\ pc' = [pc EXCEPT ![POLL] = "L267"]
    /\ UNCHANGED <<price_df, items, logs, is_listening, stop_event, speech_queue,
                   alog, locals, clock, appended, history, counters>>

\* line 267
PollLogName ==
    /\ CallLog(POLL, "L267", "Customer name set to", 0, NameOf(text))
    /\ effects' = Append(effects, [u |-> taken, what |-> "log", ts |-> clock + 1, amount |-> 0])
    /\ text' = <<>>
    /\ UNCHANGED <<price_df, items, is_listening, stop_event, speech_queue,
                   customer_name, pend, bill_data, toggle_ret, heard, heard_at_stop, taken, counters>>

\* LineItem with the total qty + price
LineItem_Sum(match, qty, price) == <<match, qty, price, qty + price>>

\* line 279: the line item of a match
LineItem(match, qty, price) == <<match, qty, price, qty * price>>

\* PollLookup without the test of line 273: fuzzy_lookup alone decides
PollLookup_NoTest ==
    /\ pc[POLL] = "L273"
    /\ \E q \in {parse_quantity_and_item(text)} :
       \E m \in {fuzzy_lookup(q[2], price_df)} :
           IF m[1]
           THEN /\ pc' = [pc EXCEPT ![POLL] = "L280"]
                /\ pend' = LineItem(m[2], q[1], m[3])
           ELSE /\ pc' = [pc EXCEPT ![POLL] = "L284"]
                /\ pend' = pend
    /\ UNCHANGED <<app, alog, text, bill_data, toggle_ret, clock, appended, history, counters>>

\* lines 273-279: state.price_df is read, the item is looked up
PollLookup ==
    /\ pc[POLL] = "L273"
    /\ \E q \in {parse_quantity_and_item(text)} :
       \E m \in {fuzzy_lookup(q[2], price_df)} :
           IF ~price_df.loaded
           THEN /\ pc' = [pc EXCEPT ![POLL] = "L274"]
                /\ pend' = pend
           ELSE IF m[1]
           THEN /\ pc' = [pc EXCEPT ![POLL] = "L280"]
                /\ pend' = LineItem(m[2], q[1], m[3])
           ELSE /\ pc' = [pc EXCEPT ![POLL] = "L284"]
                /\ pend' = pend
    /\ UNCHANGED <<app, alog, text, bill_data, toggle_ret, clock, appended, history, counters>>

\* line 274
PollLogNoCatalog ==
    /\ CallLog(POLL, "L274", NO_CATALOG_MSG, 0, <<>>)
    /\ effects' = Append(effects, [u |-> taken, what |-> "log", ts |-> clock + 1, amount |-> 0])
    /\ text' = <<>>
    /\ UNCHANGED <<price_df, items, is_listening, stop_event, speech_queue,
                   customer_name, pend, bill_data, toggle_ret, heard, heard_at_stop, taken, counters>>

\* line 280: state.items.append(...)
PollAppend ==
    /\ pc[POLL] = "L280"
    /\ items' = Append(items, pend)
    /\ effects' = Append(effects, [u |-> taken, what |-> "item", ts |-> 0,
                                    amount |-> pend[2] * pend[3]])
    /\ pc' = [pc EXCEPT ![POLL] = "L281"]
    /\ UNCHANGED <<price_df, logs, is_listening, stop_event, speech_queue,
                   customer_name, alog, locals, clock, appended, heard, heard_at_stop, taken, counters>>

\* line 281
PollLogAdded ==
    /\ CallLog(POLL, "L281", "Added", pend[2], pend[1])
    /\ effects' = Append(effects, [u |-> taken, what |-> "log", ts |-> clock + 1, amount |-> 0])
    /\ text' = <<>>
    /\ pend' = <<>>
    /\ UNCHANGED <<price_df, items, is_listening, stop_event, speech_queue,
                   customer_name, bill_data, toggle_ret, heard, heard_at_stop, taken, counters>>

\* PollLogUnknown with a line item appended for the unknown item
PollLogUnknown_Appends ==
    /\ CallLog(POLL, "L284", "Unknown item", 0, parse_quantity_and_item(text)[2])
    /\ items' = Append(items, LineItem(parse_quantity_and_item(text)[2], 1, 0))
    /\ effects' = effects \o <<[u |-> taken, what |-> "item", ts |-> 0, amount |-> 0],
                               [u |-> taken, what |-> "log", ts |-> clock + 1, amount |-> 0]>>
    /\ text' = <<>>
    /\ UNCHANGED <<price_df, is_listening, stop_event, speech_queue,
                   customer_name, pend, bill_data, toggle_ret, heard, heard_at_stop, taken, counters>>

\* line 284
PollLogUnknown ==
    /\ CallLog(POLL, "L284", "Unknown item", 0, parse_quantity_and_item(text)[2])
    /\ effects' = Append(effects, [u |-> taken, what |-> "log", ts |-> clock + 1, amount |-> 0])
    /\ text' = <<>>
    /\ UNCHANGED <<price_df, items, is_listening, stop_event, speech_queue,
                   customer_name, pend, bill_data, toggle_ret, heard, heard_at_stop, taken, counters>>

\* line 296: subtotal = sum(x[3] for x in state.items)
RECURSIVE Subtotal(_)
Subtotal(its) == IF its = <<>> THEN 0 ELSE its[1][4] + Subtotal(Tail(its))

\* lines 288-305: the log, the table and the summary are rendered
PollRender ==
    /\ pc[POLL] = "L288"
    /\ pc' = [pc EXCEPT ![POLL] = "idle"]
    /\ UNCHANGED <<app, alog, locals, clock, appended, history, counters>>

(***************************************************************************)
(* print_bill (app8.py:312-349).                                           *)
(***************************************************************************)
NoBill == [customer_name |-> SENTINEL, rendered |-> <<>>]

\* line 313: if not state.items
PrintClick ==
    /\ pc[PRINT] = "idle"
    /\ nPrint' = nPrint + 1
    /\ pc' = [pc EXCEPT ![PRINT] = IF items = <<>> THEN "L314" ELSE "L320"]
    /\ UNCHANGED <<app, alog, locals, clock, appended, history, nHeard, nLoad>>

\* line 314
PrintLogEmpty ==
    /\ CallLog(PRINT, "L314", "Cannot print empty bill.", 0, <<>>)
    /\ UNCHANGED <<price_df, items, is_listening, stop_event, speech_queue,
                   customer_name, locals, history, counters>>

\* lines 318-326: bill_data takes the customer name; its 'items' is the list
\* object state.items itself
PrintBillData ==
    /\ pc[PRINT] = "L320"
    /\ bill_data' = [customer_name |-> customer_name, rendered |-> <<>>]
    /\ pc' = [pc EXCEPT ![PRINT] = "L329"]
    /\ UNCHANGED <<app, alog, text, pend, toggle_ret, clock, appended, history, counters>>

\* line 329: generate_bill_pdf draws the items the list holds now
PrintGenerate ==
    /\ pc[PRINT] = "L329"
    /\ bill_data' = [bill_data EXCEPT !.rendered = items]
    /\ pc' = [pc EXCEPT ![PRINT] = "L330"]
    /\ UNCHANGED <<app, alog, text, pend, toggle_ret, clock, appended, history, counters>>

\* line 329 raises (the file cannot be written)
PrintGenerateFails ==
    /\ pc[PRINT] = "L329"
    /\ pc' = [pc EXCEPT ![PRINT] = "L347"]
    /\ UNCHANGED <<app, alog, locals, clock, appended, history, counters>>

\* line 330
PrintLogGenerated ==
    /\ CallLog(PRINT, "L330", "PDF Generated", 0, <<>>)
    /\ UNCHANGED <<price_df, items, is_listening, stop_event, speech_queue,
                   customer_name, locals, history, counters>>

\* lines 334-338: the file is opened
PrintOpen ==
    /\ pc[PRINT] = "L334"
    /\ pc' = [pc EXCEPT ![PRINT] = "L341"]
    /\ UNCHANGED <<app, alog, locals, clock, appended, history, counters>>

\* lines 334-338 raise (no viewer)
PrintOpenFails ==
    /\ pc[PRINT] = "L334"
    /\ pc' = [pc EXCEPT ![PRINT] = "L347"]
    /\ UNCHANGED <<app, alog, locals, clock, appended, history, counters>>

\* line 341: state.items = []
PrintClearItems ==
    /\ pc[PRINT] = "L341"
    /\ items' = <<>>
    /\ effects' = Append(effects, [u |-> taken, what |-> "clear", ts |-> 0, amount |-> 0])
    /\ pc' = [pc EXCEPT ![PRINT] = "L342"]
    /\ UNCHANGED <<price_df, logs, is_listening, stop_event, speech_queue,
                   customer_name, alog, locals, clock, appended, heard, heard_at_stop, taken, counters>>

\* line 342: state.logs = []
PrintClearLogs ==
    /\ pc[PRINT] = "L342"
    /\ logs' = <<>>
    /\ appended' = <<>>
    /\ pc' = [pc EXCEPT ![PRINT] = "L343"]
    /\ UNCHANGED <<price_df, items, is_listening, stop_event, speech_queue,
                   customer_name, alog, locals, clock, history, counters>>

\* line 343: state.customer_name = "-"
PrintClearCustomer ==
    /\ pc[PRINT] = "L343"
    /\ customer_name' = SENTINEL
    /\ pc' = [pc EXCEPT ![PRINT] = "L349ok"]
    /\ UNCHANGED <<price_df, items, logs, is_listening, stop_event, speech_queue,
                   alog, locals, clock, appended, history, counters>>

\* PrintLogError with the ledger reset in the except block
PrintLogError_Clears ==
    /\ CallLog(PRINT, "L347", "Print error", 0, <<>>)
    /\ items' = <<>>
    /\ customer_name' = SENTINEL
    /\ UNCHANGED <<price_df, is_listening, stop_event, speech_queue,
                   locals, history, counters>>

\* line 347
PrintLogError ==
    /\ CallLog(PRINT, "L347", "Print error", 0, <<>>)
    /\ UNCHANGED <<price_df, items, is_listening, stop_event, speech_queue,
                   customer_name, locals, history, counters>>

\* lines 315 and 349: the callback returns
PrintReturn ==
    /\ pc[PRINT] \in {"L315", "L349ok", "L349err"}
    /\ pc' = [pc EXCEPT ![PRINT] = "idle"]
    /\ bill_data' = NoBill
    /\ UNCHANGED <<app, alog, text, pend, toggle_ret, clock, appended, history, counters>>

(***************************************************************************)
(* load_excel (app8.py:207-224).                                           *)
(***************************************************************************)
ITEM == <<"i","t","e","m">>
PRICE == <<"p","r","i","c","e">>

\* line 213
Columns(tbl) == {Strip(Lower(c)) : c \in tbl.columns}

\* lines 215-216: the item column normalised and made the index
Indexed(tbl) == [loaded |-> TRUE, rows |-> {<<Strip(Lower(r[1])), r[2]>> : r \in tbl.rows}]

\* lines 212-214
Accepted(tbl) == tbl.readable /\ ITEM \in Columns(tbl) /\ PRICE \in Columns(tbl)

\* line 217: state.price_df = df
LoadExcel(tbl) ==
    /\ pc[LOAD] = "idle"
    /\ Accepted(tbl)
    /\ nLoad' = nLoad + 1
    /\ price_df' = Indexed(tbl)
    /\ pc' = [pc EXCEPT ![LOAD] = "L218"]
    /\ UNCHANGED <<items, logs, is_listening, stop_event, speech_queue,
                   customer_name, alog, locals, clock, appended, history, nHeard, nPrint>>

\* LoadRejected with the catalog reset to None
LoadRejected_Resets(tbl) ==
    /\ pc[LOAD] = "idle"
    /\ ~Accepted(tbl)
    /\ nLoad' = nLoad + 1
    /\ price_df' = NoCatalog
    /\ UNCHANGED <<items, logs, is_listening, stop_event, speech_queue, customer_name,
                   pc, alog, locals, clock, appended, history, nHeard, nPrint>>

\* lines 222 and 224: the table is rejected or cannot be read
LoadRejected(tbl) ==
    /\ pc[LOAD] = "idle"
    /\ ~Accepted(tbl)
    /\ nLoad' = nLoad + 1
    /\ UNCHANGED <<app, pc, alog, locals, clock, appended, history, nHeard, nPrint>>

\* line 218
LoadLog ==
    /\ CallLog(LOAD, "L218", "Loaded", 0, <<>>)
    /\ UNCHANGED <<price_df, items, is_listening, stop_event, speech_queue,
                   customer_name, locals, history, counters>>

(***************************************************************************)
(* The program.  The number of capture cycles, print clicks and uploads of *)
(* a behaviour is bounded in the next-state relations, not in the actions. *)
(***************************************************************************)
Heard(U) == nHeard < MaxHeard /\ \E t \in Listeners, raw \in U : ListenerHeard(t, raw)
HeardError == nHeard < MaxHeard /\ \E t \in Listeners : ListenerError(t)
Clicked == nPrint < MaxPrint /\ PrintClick
Uploaded == nLoad < MaxLoad /\ \E tbl \in Tables : LoadExcel(tbl)
UploadRejected == nLoad < MaxLoad /\ \E tbl \in Tables : LoadRejected(tbl)
Reloaded == nLoad < MaxLoad /\ LoadExcel(T_TWO)

Next ==
    \/ ToggleStart
    \/ ToggleStop
    \/ \E t \in Listeners : ListenerStarted(t)
    \/ \E t \in Listeners : ListenerLoop(t)
    \/ Heard(Utterances)
    \/ \E t \in Listeners : ListenerNotUnderstood(t)
    \/ HeardError
    \/ \E t \in Listeners : ListenerLogError(t)
    \/ \E t \in Threads : AddLogCheck(t)
    \/ \E t \in Threads : AddLogPop(t)
    \/ PollTick
    \/ PollGet
    \/ PollSetName
    \/ PollLogName
    \/ PollLookup
    \/ PollLogNoCatalog
    \/ PollAppend
    \/ PollLogAdded
    \/ PollLogUnknown
    \/ PollRender
    \/ Clicked
    \/ PrintLogEmpty
    \/ PrintBillData
    \/ PrintGenerate
    \/ PrintGenerateFails
    \/ PrintLogGenerated
    \/ PrintOpen
    \/ PrintOpenFails
    \/ PrintClearItems
    \/ PrintClearLogs
    \/ PrintClearCustomer
    \/ PrintLogError
    \/ PrintReturn
    \/ Uploaded
    \/ UploadRejected
    \/ LoadLog

\* the whole program
Spec == Init /\ [][Next]_vars

(***************************************************************************)
(* The controller and the listener threads: toggle_listening and           *)
(* background_listener, with nothing consuming the queue.                  *)
(***************************************************************************)
NextCtl ==
    \/ ToggleStart
    \/ ToggleStop
    \/ \E t \in Listeners : ListenerStarted(t)
    \/ \E t \in Listeners : ListenerLoop(t)
    \/ Heard(Utterances)
    \/ \E t \in Listeners : ListenerNotUnderstood(t)
    \/ HeardError
    \/ \E t \in Listeners : ListenerLogError(t)
    \/ \E t \in Listeners : AddLogCheck(t)

SpecCtl == Init /\ [][NextCtl]_vars

(***************************************************************************)
(* The bill: a session in which the catalog T_GOOD has been loaded and     *)
(* listening has been started (the first listener thread stands at the top *)
(* of its loop); poll_updates and print_bill run next to the listener.     *)
(***************************************************************************)
\* the state after k clicks on "Print Bill" with the ledger empty, an upload
\* of T_GOOD and a click on "Start Listening", all run to completion
EmptyBillLog(k) ==
    [i \in 1..k |-> [ts |-> i, kind |-> "Cannot print empty bill.", qty |-> 0, arg |-> <<>>]]

InitSession(k) ==
    /\ price_df = Indexed(T_GOOD)
    /\ items = <<>>
    /\ logs = EmptyBillLog(k) \o
              <<[ts |-> k + 1, kind |-> "Loaded", qty |-> 0, arg |-> <<>>],
                [ts |-> k + 2, kind |-> "Listener thread started", qty |-> 0, arg |-> <<>>]>>
    /\ appended = logs
    /\ is_listening = TRUE
    /\ stop_event = FALSE
    /\ speech_queue = <<>>
    /\ customer_name = SENTINEL
    /\ pc = [t \in Threads |-> IF t = 1 THEN "L141" ELSE IF t \in Listeners THEN "unborn" ELSE "idle"]
    /\ alog = [t \in Threads |-> "idle"]
    /\ text = <<>>
    /\ pend = <<>>
    /\ bill_data = NoBill
    /\ toggle_ret = [button |-> "btn-start", out |-> <<"True", "False">>]
    /\ clock = k + 2
    /\ heard = <<>>
    /\ taken = 0
    /\ effects = <<>>
    /\ heard_at_stop = 0
    /\ nHeard = 0
    /\ nPrint = 0
    /\ nLoad = 0

InitLoaded == InitSession(0)

NextBill ==
    \/ \E t \in Listeners : ListenerLoop(t)
    \/ Heard({U_NAME, U_TWO_TEA})
    \/ \E t \in Threads : AddLogCheck(t)
    \/ PollTick
    \/ PollGet
    \/ PollSetName
    \/ PollLogName
    \/ PollLookup
    \/ PollAppend
    \/ PollLogAdded
    \/ PollRender
    \/ Clicked
    \/ PrintLogEmpty
    \/ PrintBillData
    \/ PrintGenerate
    \/ PrintGenerateFails
    \/ PrintLogGenerated
    \/ PrintOpen
    \/ PrintOpenFails
    \/ PrintClearItems
    \/ PrintClearLogs
    \/ PrintClearCustomer
    \/ PrintLogError
    \/ PrintReturn

SpecBill == InitLoaded /\ [][NextBill]_vars

(***************************************************************************)
(* The consumer without print_bill.                                        *)
(***************************************************************************)
NextPoll ==
    \/ ToggleStart
    \/ \E t \in Listeners : ListenerStarted(t)
    \/ \E t \in Listeners : ListenerLoop(t)
    \/ Heard(Utterances)
    \/ \E t \in Threads : AddLogCheck(t)
    \/ PollTick
    \/ PollGet
    \/ PollSetName
    \/ PollLogName
    \/ PollLookup
    \/ PollLogNoCatalog
    \/ PollAppend
    \/ PollLogAdded
    \/ PollLogUnknown
    \/ PollRender
    \/ Uploaded
    \/ UploadRejected
    \/ LoadLog

SpecPoll == Init /\ [][NextPoll]_vars

(***************************************************************************)
(* The log at its capacity: a session whose log holds LogCap - 1 entries,  *)
(* in which the listener, poll_updates and print_bill all call add_log.    *)
(***************************************************************************)
InitLog == InitSession(LogCap - 3)

NextLog ==
    \/ \E t \in Listeners : ListenerLoop(t)
    \/ Heard({U_TWO_TEA})
    \/ HeardError
    \/ \E t \in Listeners : ListenerLogError(t)
    \/ \E t \in Threads : AddLogCheck(t)
    \/ \E t \in Threads : AddLogPop(t)
    \/ PollTick
    \/ PollGet
    \/ PollLookup
    \/ PollAppend
    \/ PollLogAdded
    \/ PollRender
    \/ Clicked
    \/ PrintLogEmpty
    \/ PrintBillData
    \/ PrintGenerate
    \/ PrintLogGenerated
    \/ PrintOpen
    \/ PrintClearItems
    \/ PrintClearLogs
    \/ PrintClearCustomer
    \/ PrintReturn

SpecLog == InitLog /\ [][NextLog]_vars

(***************************************************************************)
(* One utterance: a session in which the listener has put one text on the  *)
(* queue, for every text of RawPhrases and every catalog of Catalogs;      *)
(* poll_updates processes it.                                              *)
(***************************************************************************)
RawPhrases == {U_NAME, U_NAME_AGAIN, U_TWO_TEA, U_ZERO_TEA, U_WORD_TEE, U_TEA, U_XYZ}

Catalogs == {NoCatalog, Indexed(T_GOOD), Indexed(T_TWO)}

\* the log after an upload, if there was one, and a click on "Start Listening"
StartedLog(cat) ==
    IF cat.loaded
    THEN <<[ts |-> 1, kind |-> "Loaded", qty |-> 0, arg |-> <<>>],
           [ts |-> 2, kind |-> "Listener thread started", qty |-> 0, arg |-> <<>>]>>
    ELSE <<[ts |-> 1, kind |-> "Listener thread started", qty |-> 0, arg |-> <<>>]>>

InitParse ==
    /\ price_df \in Catalogs
    /\ \E raw \in RawPhrases :
          /\ speech_queue = <<Strip(Lower(raw))>>
          /\ heard = speech_queue
    /\ items = <<>>
    /\ logs = StartedLog(price_df)
    /\ appended = logs
    /\ is_listening = TRUE
    /\ stop_event = FALSE
    /\ customer_name = SENTINEL
    /\ pc = [t \in Threads |-> IF t = 1 THEN "L141" ELSE IF t \in Listeners THEN "unborn" ELSE "idle"]
    /\ alog = [t \in Threads |-> "idle"]
    /\ text = <<>>
    /\ pend = <<>>
    /\ bill_data = NoBill
    /\ toggle_ret = [button |-> "btn-start", out |-> <<"True", "False">>]
    /\ clock = Len(logs)
    /\ taken = 0
    /\ effects = <<>>
    /\ heard_at_stop = 0
    /\ nHeard = 1
    /\ nPrint = 0
    /\ nLoad = IF price_df.loaded THEN 1 ELSE 0

NextParse ==
    \/ AddLogCheck(POLL)
    \/ PollTick
    \/ PollGet
    \/ PollSetName
    \/ PollLogName
    \/ PollLookup
    \/ PollLogNoCatalog
    \/ PollAppend
    \/ PollLogAdded
    \/ PollLogUnknown
    \/ PollRender

SpecParse == InitParse /\ [][NextParse]_vars

(***************************************************************************)
(* The reload: a session with the catalog T_GOOD loaded, in which the      *)
(* price list T_TWO or a table that is rejected is uploaded while          *)
(* poll_updates processes orders.                                          *)
(***************************************************************************)
NextLoad ==
    \/ \E t \in Listeners : ListenerLoop(t)
    \/ Heard({U_TEA, U_WORD_TEE})
    \/ \E t \in Threads : AddLogCheck(t)
    \/ PollTick
    \/ PollGet
    \/ PollLookup
    \/ PollAppend
    \/ PollLogAdded
    \/ PollRender
    \/ Reloaded
    \/ UploadRejected
    \/ LoadLog

SpecLoad == InitLoaded /\ [][NextLoad]_vars

(***************************************************************************)
(* The drain: a session with the catalog T_GOOD loaded in which the        *)
(* listener enqueues texts and the interval component (app8.py:257) fires  *)
(* again and again.                                                        *)
(***************************************************************************)
\* a step of the request thread that runs poll_updates
PollStep ==
    \/ PollTick
    \/ PollGet
    \/ PollSetName
    \/ PollLogName
    \/ PollLookup
    \/ PollAppend
    \/ PollLogAdded
    \/ PollLogUnknown
    \/ PollRender
    \/ AddLogCheck(POLL)

NextDrain ==
    \/ \E t \in Listeners : ListenerLoop(t)
    \/ Heard(Utterances)
    \/ \E t \in Listeners : ListenerNotUnderstood(t)
    \/ PollStep

\* the interval fires for ever, and the request thread it starts waits for
\* no other thread: one of its steps is enabled in every state, and it
\* takes steps for ever
SpecDrain == InitLoaded /\ [][NextDrain]_vars /\ WF_vars(PollTick) /\ []<><<PollStep>>_vars

(***************************************************************************)
(* Properties.                                                             *)
(***************************************************************************)
\* a step in which toggle_listening ran for the given button (a call that
\* changes nothing at all is a stuttering step)
StartCall == toggle_ret' # toggle_ret /\ toggle_ret'.button = "btn-start"
StopCall == toggle_ret' # toggle_ret /\ toggle_ret'.button = "btn-stop"

\* C1: at most one SpeechCapture execution (listener thread that has been
\* started and has not returned) is live at any time.
C1_AtMostOneLive == Cardinality(LiveListeners) <= 1

\* C2: a start invoked while Listening spawns no listener thread and leaves
\* is_listening and the stop signal as they are: no step taken while
\* Listening spawns a thread, and every step taken while Listening that is
\* not a stop call keeps both flags.  No step spawns more than one thread,
\* so two starts in a row spawn exactly one.
C2_StartIdempotent ==
    [][/\ is_listening => Born' = Born
       /\ (is_listening /\ toggle_ret'.button = "btn-start") =>
             (is_listening' /\ stop_event' = stop_event)
       /\ StartCall => (is_listening' /\ Cardinality(Born') <= Cardinality(Born) + 1)
       /\ (StartCall /\ ~is_listening) => Cardinality(Born') = Cardinality(Born) + 1]_vars

\* a start has been invoked while Listening, one thread is live and another
\* could have been spawned
C2_Witness ==
    /\ toggle_ret = [button |-> "btn-start", out |-> NO_UPDATE]
    /\ is_listening
    /\ Cardinality(LiveListeners) = 1
    /\ \E t \in Listeners : pc[t] = "unborn"

\* C3: a stop invoked while NotListening changes neither the stop signal nor
\* is_listening, the queue, the ledger, the log or the customer name; a stop
\* invoked while Listening sets the stop signal and moves to NotListening in
\* the same step, whatever the listener threads are doing, and leaves them
\* where they are.
C3_Stop ==
    [][StopCall =>
        IF is_listening
        THEN stop_event' /\ ~is_listening' /\ pc' = pc /\ LiveListeners' = LiveListeners
        ELSE UNCHANGED <<stop_event, is_listening, speech_queue, items, logs,
                         customer_name, pc>>]_vars

\* a stop has been invoked while NotListening, after a session that was
\* stopped while its listener thread, still live, was capturing
C3_Witness ==
    /\ toggle_ret = [button |-> "btn-stop", out |-> NO_UPDATE]
    /\ ~is_listening
    /\ stop_event
    /\ speech_queue # <<>>
    /\ logs # <<>>
    /\ \E t \in Listeners : pc[t] = "L144"

NoLogInProgress == \A t \in Threads : alog[t] = "idle"

\* C4: whenever no add_log call is in progress the log holds at most 20
\* entries, whichever threads (listener, poll_updates, print_bill) called it.
C4_LogBounded == NoLogInProgress => Len(logs) <= LogCap

\* the log is full, its oldest entries have been evicted, and it holds
\* entries of the listener thread and of poll_updates
C4_Witness ==
    /\ NoLogInProgress
    /\ Len(logs) = LogCap
    /\ logs[1].ts > 1
    /\ \E i \in 1..Len(logs) : logs[i].kind = "Error"
    /\ \E i \in 1..Len(logs) : logs[i].kind = "Added"

LastN(seq, n) == SubSeq(seq, Len(seq) - n + 1, Len(seq))

\* C5: whenever no add_log call is in progress, the log is exactly the last
\* min(n, 20) of the n entries appended since the log was last emptied, in
\* the order of their arrival.
C5_LastAppended ==
    NoLogInProgress =>
        logs = LastN(appended, IF Len(appended) < LogCap THEN Len(appended) ELSE LogCap)

\* the effects of poll_updates on the ledger and on the log, in the order
\* they happened
PollEffects == SelectSeq(effects, LAMBDA e : e.what \in {"item", "log"})

\* the number of effects of kind w that utterance number u has had
Count(w, u) == Cardinality({i \in 1..Len(effects) : effects[i].what = w /\ effects[i].u = u})

\* poll_updates is between two utterances
PollBetween == pc[POLL] \in {"idle", "L260", "L288"}

\* C6: the texts are taken from the queue once each and in the order they
\* were enqueued (what has been enqueued is what has been taken followed by
\* what is still queued), the ledger appends and log entries they cause
\* happen in that order, and every text taken has been processed once: one
\* log entry, at most one ledger append, none skipped.
C6_FifoExactlyOnce ==
    /\ taken <= Len(heard)
    /\ speech_queue = SubSeq(heard, taken + 1, Len(heard))
    /\ text # <<>> => text = heard[taken]
    /\ \A i, j \in 1..Len(PollEffects) : i < j => PollEffects[i].u <= PollEffects[j].u
    /\ \A u \in 1..taken : Count("log", u) <= 1 /\ Count("item", u) <= 1
    /\ \A u \in 1..taken : (u < taken \/ PollBetween) => Count("log", u) = 1
    /\ \A i \in 1..Len(effects) : effects[i].u \in 1..taken

\* two different texts have been enqueued, taken and processed, the first
\* as a name directive and the second as an order that was added
C6_Witness ==
    /\ Len(heard) = 2
    /\ heard[1] # heard[2]
    /\ taken = 2
    /\ PollBetween
    /\ Len(PollEffects) = 3
    /\ PollEffects[3].u = 2
    /\ items # <<>>

\* a step of the thread t
StepOf(t) == pc'[t] # pc[t] \/ alog'[t] # alog[t]

\* print_bill is on its failure path: the export block has raised
PrintFailed == pc[PRINT] \in {"L347", "L349err"}

IsEntry(e, kind) == e.kind = kind

\* C7: when the export raises, no step of print_bill from then on changes
\* the ledger or the customer name or empties the log, and the failure is
\* appended to the log before print_bill returns; print_bill empties the
\* ledger only at line 341, which it reaches only from a completed export.
C7_ExportFailure ==
    [][StepOf(PRINT) =>
        /\ (PrintFailed \/ PrintFailed') =>
              /\ items' = items
              /\ customer_name' = customer_name
              /\ (logs # <<>> => logs' # <<>>)
              /\ pc'[PRINT] \in {"L347", "L349err", "idle"}
        /\ (pc[PRINT] = "L347" /\ alog[PRINT] = "idle") =>
              (logs' = Append(logs, logs'[Len(logs')]) /\ IsEntry(logs'[Len(logs')], "Print error"))
        /\ pc'[PRINT] = "L349err" => (pc[PRINT] = "L347" /\ alog[PRINT] # "idle")
        /\ (items # <<>> /\ items' = <<>>) => (pc[PRINT] = "L341" /\ ~PrintFailed)
        /\ pc'[PRINT] = "L341" => pc[PRINT] = "L334"]_vars

\* print_bill has failed on a ledger that holds an item for a named
\* customer, and has logged the failure
C7_Witness ==
    /\ pc[PRINT] = "L349err"
    /\ items # <<>>
    /\ customer_name # SENTINEL
    /\ \E i \in 1..Len(logs) : IsEntry(logs[i], "Print error")

\* C8: at the moment print_bill completes the clearing that follows a
\* successful export (line 343), the ledger is empty, the log is empty and
\* the customer name is the sentinel.
C8_ClearedAfterExport ==
    [][(pc[PRINT] = "L343" /\ pc'[PRINT] = "L349ok") =>
          (items' = <<>> /\ logs' = <<>> /\ customer_name' = SENTINEL)]_vars

\* the amounts quantity * rate of the line items appended to the ledger
\* since it was last cleared
RECURSIVE SinceClear(_)
SinceClear(es) ==
    IF es = <<>> \/ es[Len(es)].what = "clear" THEN 0
    ELSE (IF es[Len(es)].what = "item" THEN es[Len(es)].amount ELSE 0)
         + SinceClear(SubSeq(es, 1, Len(es) - 1))

\* C9: the subtotal computed from the ledger is the sum of quantity * rate
\* over the line items appended since the last clear; it is 0 for the
\* initial ledger and right after a clear.
C9_Subtotal ==
    /\ Subtotal(items) = SinceClear(effects)
    /\ items = <<>> => Subtotal(items) = 0
    /\ (effects = <<>> \/ effects[Len(effects)].what = "clear") => Subtotal(items) = 0

\* a bill has been exported and cleared with one line item on it, and the
\* ledger holds a line item again: only that one counts
C9_Witness ==
    /\ \E i, j \in 1..Len(effects) :
          i < j /\ effects[i].what = "item" /\ effects[j].what = "clear"
    /\ Len(items) = 1
    /\ Subtotal(items) = 60

\* C10: while the catalog is not loaded, an order utterance that poll_updates
\* processes leaves the ledger as it is, gets the error entry appended to
\* the log, and poll_updates goes on to the next utterance (back to the loop
\* test of line 260); no step appends to the ledger while the catalog is
\* absent.
C10_NoCatalog ==
    [][/\ items' # items => price_df.loaded
       /\ StepOf(POLL) =>
           /\ (pc[POLL] = "L273" /\ ~price_df.loaded) =>
                 (pc'[POLL] = "L274" /\ items' = items /\ pend' = pend)
           /\ (pc[POLL] = "L274" /\ alog[POLL] = "idle") =>
                 /\ logs' = Append(logs, logs'[Len(logs')])
                 /\ IsEntry(logs'[Len(logs')], NO_CATALOG_MSG)
                 /\ items' = items
           /\ (pc[POLL] = "L274" /\ alog[POLL] # "idle") =>
                 (items' = items /\ pc'[POLL] \in {"L274", "L260"})]_vars

\* two order utterances have been processed with no catalog loaded: the log
\* holds two error entries and the ledger is empty
C10_Witness ==
    /\ ~price_df.loaded
    /\ taken = 2
    /\ PollBetween
    /\ items = <<>>
    /\ Cardinality({i \in 1..Len(logs) : IsEntry(logs[i], NO_CATALOG_MSG)}) = 2

\* the text of a name directive after its leading prefix, trimmed
Remainder(txt) == Strip(Drop(txt, Len(NAME_PREFIX)))

\* C11: when poll_updates takes a text that begins with "name ", it goes to
\* the name branch, never to the order branch, and the step that sets the
\* customer name sets it to the trimmed remainder of the text after that
\* leading prefix, leaving the ledger alone.
C11_NameRemainder ==
    [][/\ (pc[POLL] = "L260" /\ pc'[POLL] \notin {"L260", "L288"}) =>
             (StartsWith(text', NAME_PREFIX) <=> pc'[POLL] = "L266")
       /\ (pc[POLL] = "L266" /\ pc'[POLL] = "L267") =>
             (customer_name' = Remainder(text) /\ items' = items /\ pend' = pend)]_vars

\* the item phrase of the text poll_updates is processing, and its normal form
ItemPhrase == parse_quantity_and_item(text)[2]
Normal(phrase) == Lower(Strip(phrase))

\* C12: for a loaded catalog, when the normalised phrase is a key of the
\* catalog, fuzzy_lookup returns that key with its price, and poll_updates
\* builds the line item from them; a line item whose name is not the phrase
\* is built only when the phrase is no key.
C12_ExactWins ==
    (price_df.loaded /\ text # <<>> /\ ~StartsWith(text, NAME_PREFIX)) =>
        /\ Normal(ItemPhrase) \in Keys(price_df) =>
              /\ fuzzy_lookup(ItemPhrase, price_df) =
                    <<TRUE, Normal(ItemPhrase), PriceOf(price_df, Normal(ItemPhrase))>>
              /\ pc[POLL] # "L284"
              /\ pc[POLL] = "L280" =>
                    (pend[1] = Normal(ItemPhrase) /\ pend[3] = PriceOf(price_df, pend[1]))
        /\ (pc[POLL] = "L280" /\ pend[1] # Normal(ItemPhrase)) =>
              Normal(ItemPhrase) \notin Keys(price_df)

\* the phrase "tea" has been looked up in the catalog with the keys "tea"
\* and "tee", and the line item is for "tea" at the price of "tea"
C12_Witness ==
    /\ pc[POLL] = "L280"
    /\ price_df = Indexed(T_TWO)
    /\ text = U_TEA
    /\ pend = <<U_TEA, 1, 25, 25>>

\* a step in which load_excel ends without having accepted the table
LoadFailed == nLoad' # nLoad /\ pc'[LOAD] = "idle"

\* C13: a load that fails leaves price_df as it is; price_df changes only in
\* the single step of line 217, to the whole indexed table; and every line
\* item poll_updates builds takes its name and its rate from one and the
\* same catalog, the old or the new.
C13_LoadAtomic ==
    [][/\ LoadFailed => price_df' = price_df
       /\ price_df' # price_df =>
             /\ pc[LOAD] = "idle" /\ pc'[LOAD] = "L218"
             /\ price_df' = Indexed(T_TWO)
       /\ price_df' \in {Indexed(T_GOOD), Indexed(T_TWO)}
       /\ (pc[POLL] = "L273" /\ pc'[POLL] = "L280") =>
             /\ pend'[1] \in Keys(price_df)
             /\ pend'[3] = PriceOf(price_df, pend'[1])]_vars

\* an upload has been rejected and the catalog loaded before it is still
\* the one poll_updates matches an order against
C13_Witness ==
    /\ nLoad = 1
    /\ pc[LOAD] = "idle"
    /\ Cardinality({i \in 1..Len(logs) : logs[i].kind = "Loaded"}) = 1
    /\ price_df = Indexed(T_GOOD)
    /\ pc[POLL] = "L280"
    /\ text = U_TEA
    /\ pend[3] = 30

\* a stop has been invoked while Listening since the listener thread t was
\* started: the stop signal is set, or it was set and a later start has
\* cleared it and started the next thread
StoppedSince(t) == stop_event \/ \E u \in Listeners : u > t /\ pc[u] # "unborn"

\* C14: a listener thread that tests the stop signal (line 141) after a stop
\* was invoked while it was live leaves its loop: it completes the capture
\* cycle it was in and begins no other, whatever start and stop calls
\* followed the stop.
C14_ExitsAfterStop ==
    [][\A t \in Listeners :
          (pc[t] = "L141" /\ pc'[t] # "L141" /\ StoppedSince(t)) => pc'[t] = "done"]_vars

\* C15: no step of a listener thread changes the ledger, the log, the
\* customer name, the catalog, is_listening or the stop signal.
C15_ListenerFrame ==
    [][\A t \in Listeners :
          (pc[t] # "unborn" /\ StepOf(t)) =>
              UNCHANGED <<items, logs, customer_name, price_df, is_listening, stop_event>>]_vars

\* the kinds of the log entries that utterance number u has caused
LogKinds(u) ==
    {logs[j].kind : j \in {k \in 1..Len(logs) :
        \E i \in 1..Len(effects) :
            effects[i].u = u /\ effects[i].what = "log" /\ effects[i].ts = logs[k].ts}}

\* utterance number u has been processed
Processed(u) == u < taken \/ (u = taken /\ PollBetween)

\* C16: every utterance poll_updates has processed has caused exactly one
\* log entry; a name directive has caused the entry "Customer name set to"
\* and no ledger append; an order has caused either the entry "Added" and
\* exactly one ledger append, or one of the entries "Unknown item" and
\* "Error: Price list not loaded!" and no ledger append.  The ledger holds
\* one line item for each append.
C16_OneEntryPerUtterance ==
    /\ \A u \in 1..taken : Processed(u) =>
          /\ Count("log", u) = 1
          /\ Cardinality(LogKinds(u)) = 1
          /\ StartsWith(heard[u], NAME_PREFIX) =>
                (LogKinds(u) = {"Customer name set to"} /\ Count("item", u) = 0)
          /\ ~StartsWith(heard[u], NAME_PREFIX) =>
                \/ LogKinds(u) = {"Added"} /\ Count("item", u) = 1
                \/ LogKinds(u) = {"Unknown item"} /\ Count("item", u) = 0
                \/ LogKinds(u) = {NO_CATALOG_MSG} /\ Count("item", u) = 0
    /\ Len(items) = Cardinality({i \in 1..Len(effects) : effects[i].what = "item"})

\* a name directive and an order for an unknown item have been processed
\* with a catalog loaded: the name is set, the log has their two entries
\* and the ledger is empty
C16_Witness ==
    /\ taken = 2
    /\ PollBetween
    /\ price_df.loaded
    /\ LogKinds(1) = {"Customer name set to"}
    /\ LogKinds(2) = {"Unknown item"}
    /\ customer_name = <<"a","l">>
    /\ items = <<>>

\* C17: every line item of the ledger has a quantity of at least 1, a name
\* that is a key of the catalog, and a total equal to quantity times rate.
C17_LineItems ==
    \A i \in 1..Len(items) :
        /\ items[i][2] >= 1
        /\ items[i][1] \in Keys(price_df)
        /\ items[i][4] = items[i][2] * items[i][3]

\* C18: when poll_updates leaves its loop, the queue is empty and every text
\* enqueued so far, so every text that was queued when the call started,
\* has been taken and has its log entry; and while ticks keep occurring,
\* every text that has been enqueued is eventually processed.
C18_Drains ==
    /\ [][(pc[POLL] # "L288" /\ pc'[POLL] = "L288") =>
             /\ speech_queue' = <<>>
             /\ taken' = Len(heard')
             /\ \A u \in 1..taken' : Count("log", u)' = 1]_vars
    /\ \A n \in 1..MaxHeard : (Len(heard) >= n) ~> Processed(n)

\* poll_updates has left its loop after two texts were enqueued: both have
\* been taken and processed and the queue is empty
C18_Witness ==
    /\ pc[POLL] = "L288"
    /\ Len(heard) = 2
    /\ taken = 2
    /\ speech_queue = <<>>
    /\ Count("log", 1) = 1
    /\ Count("log", 2) = 1

\* C19: the line items that print_bill removes from the ledger at line 341
\* are the line items that were drawn into the exported bill.
C19_NoItemLost ==
    [][(pc[PRINT] = "L341" /\ pc'[PRINT] = "L342") =>
          \A i \in 1..Len(items) :
              i <= Len(bill_data.rendered) /\ bill_data.rendered[i] = items[i]]_vars

\* C20: once a stop has set the stop signal, and until a start clears it
\* again, the text channel receives at most one further utterance: the one
\* of the capture cycle that was in flight when the stop was invoked.
C20_AtMostOneAfterStop ==
    stop_event => Len(heard) <= heard_at_stop + 1

====
